---- MODULE Spec2Model ----
(***************************************************************************)
(* Session-key lifecycle of ssa-assist: EncryptionService (key custody,    *)
(* envelope codec, passphrase verifier, auto-lock timer) together with     *)
(* the auth store that drives it (setupPassphrase, unlock, lock and the    *)
(* 'session-locked' listener).                                             *)
(*                                                                         *)
(* Abstractions.  PBKDF2 is a deterministic function of (passphrase,       *)
(* salt), taken to be injective on the small domains used here.  An        *)
(* AES-GCM ciphertext is a sealed box that opens only under the key and    *)
(* the iv it was sealed with, and only while every byte of it is the byte  *)
(* encrypt produced.  Strings are sequences of UTF-16 code units and the   *)
(* text codec is UTF-8 as TextEncoder and TextDecoder compute it.  A       *)
(* base64 text is the buffer it encodes together with the way one of its   *)
(* characters was replaced, if any.  Random bytes are any value of the     *)
(* small domains.  Time is counted in ticks of the auto-lock window; a     *)
(* timer may fire at or after its deadline, never before.                  *)
(***************************************************************************)
EXTENDS Integers, FiniteSets, Sequences, TLC

(* ---------------- bounds of the model ---------------- *)
NumPassphrases == 2
NumSalts == 2
NumIVs == 2
MaxTimers == 2

(* 30 * 60 * 1000 ms, counted in ticks of 15 minutes *)
SessionTimeoutTicks == 2

Passphrases == 1..NumPassphrases
Salts == 1..NumSalts
IVs == 1..NumIVs
TimerIds == 1..MaxTimers
\* JavaScript strings are sequences of UTF-16 code units
TestText == <<116, 101, 115, 116>>          \* 'test'
EmptyObjectText == <<123, 125>>             \* '{}'
Plaintexts == {TestText, EmptyObjectText}

\* strings a caller can pass to encrypt: '', 'test', U+1F512 as a surrogate
\* pair, a string that begins with U+FEFF, and an unpaired surrogate
Texts == {<<>>, TestText, <<55357, 56594>>, <<65279, 116>>, <<55357>>}

NoKey == <<>>
NoTimer == 0
NotPending == -1
NoSalt == 0
NoConfig == [present |-> FALSE]
NoCall == [pending |-> FALSE]
NoKept == [present |-> FALSE]

NotInitialized == "Encryption service not initialized. Please unlock first."
DecryptionFailed == "Decryption failed. Invalid passphrase or corrupted data."
InvalidCharacterError == "InvalidCharacterError"

\* outcome of a call: the value it resolves to, or the error it throws
Returned(v) == [threw |-> FALSE, value |-> v]
Threw(msg) == [threw |-> TRUE, error |-> msg]

(* ---------------- Web Crypto and codecs ---------------- *)

\* crypto.subtle.deriveKey (PBKDF2, SHA-256): the key is determined by the
\* passphrase and the salt.
deriveKey(passphrase, salt) == <<passphrase, salt>>

Keys == {deriveKey(p, s) : p \in Passphrases, s \in Salts}

HighSurrogate(u) == u >= 55296 /\ u <= 56319
LowSurrogate(u) == u >= 56320 /\ u <= 57343
ReplacementCharacter == 65533
ByteOrderMark == 65279

\* the scalar values of a string: a surrogate pair is one value, and an
\* unpaired surrogate is replaced by U+FFFD
RECURSIVE ScalarValues(_)
ScalarValues(str) ==
    IF str = <<>> THEN <<>>
    ELSE IF Len(str) >= 2 /\ HighSurrogate(str[1]) /\ LowSurrogate(str[2])
    THEN <<65536 + (str[1] - 55296) * 1024 + (str[2] - 56320)>>
            \o ScalarValues(SubSeq(str, 3, Len(str)))
    ELSE IF HighSurrogate(str[1]) \/ LowSurrogate(str[1])
    THEN <<ReplacementCharacter>> \o ScalarValues(Tail(str))
    ELSE <<str[1]>> \o ScalarValues(Tail(str))

Utf8(c) ==
    IF c < 128 THEN <<c>>
    ELSE IF c < 2048 THEN <<192 + (c \div 64), 128 + (c % 64)>>
    ELSE IF c < 65536
    THEN <<224 + (c \div 4096), 128 + ((c \div 64) % 64), 128 + (c % 64)>>
    ELSE <<240 + (c \div 262144), 128 + ((c \div 4096) % 64),
           128 + ((c \div 64) % 64), 128 + (c % 64)>>

RECURSIVE Utf8All(_)
Utf8All(scalars) ==
    IF scalars = <<>> THEN <<>> ELSE Utf8(scalars[1]) \o Utf8All(Tail(scalars))

\* new TextEncoder().encode(str)
TextEncode(str) == Utf8All(ScalarValues(str))

Continuation(b) == b >= 128 /\ b <= 191

\* the scalar values of a UTF-8 byte sequence; a byte that starts no
\* well-formed sequence decodes to U+FFFD
RECURSIVE Utf8Decode(_)
Utf8Decode(bytes) ==
    IF bytes = <<>> THEN <<>>
    ELSE LET b == bytes[1]
             n == Len(bytes)
         IN IF b < 128 THEN <<b>> \o Utf8Decode(Tail(bytes))
            ELSE IF b >= 194 /\ b <= 223 /\ n >= 2 /\ Continuation(bytes[2])
            THEN <<(b - 192) * 64 + (bytes[2] - 128)>>
                    \o Utf8Decode(SubSeq(bytes, 3, n))
            ELSE IF b >= 224 /\ b <= 239 /\ n >= 3
                    /\ Continuation(bytes[2]) /\ Continuation(bytes[3])
            THEN <<(b - 224) * 4096 + (bytes[2] - 128) * 64 + (bytes[3] - 128)>>
                    \o Utf8Decode(SubSeq(bytes, 4, n))
            ELSE IF b >= 240 /\ b <= 244 /\ n >= 4 /\ Continuation(bytes[2])
                    /\ Continuation(bytes[3]) /\ Continuation(bytes[4])
            THEN <<(b - 240) * 262144 + (bytes[2] - 128) * 4096
                     + (bytes[3] - 128) * 64 + (bytes[4] - 128)>>
                    \o Utf8Decode(SubSeq(bytes, 5, n))
            ELSE <<ReplacementCharacter>> \o Utf8Decode(Tail(bytes))

RECURSIVE CodeUnits(_)
CodeUnits(scalars) ==
    IF scalars = <<>> THEN <<>>
    ELSE LET c == scalars[1]
         IN (IF c < 65536 THEN <<c>>
             ELSE <<55296 + ((c - 65536) \div 1024), 56320 + ((c - 65536) % 1024)>>)
            \o CodeUnits(Tail(scalars))

\* new TextDecoder().decode(bytes): utf-8, not fatal, ignoreBOM false, so a
\* leading U+FEFF is not part of the result
TextDecode(bytes) ==
    LET scalars == Utf8Decode(bytes)
    IN CodeUnits(IF scalars # <<>> /\ scalars[1] = ByteOrderMark
                 THEN Tail(scalars) ELSE scalars)

\* btoa over the bytes: the base64 text of a buffer.  `altered` tells how a
\* text differs from the one btoa returned (see Alterations).
arrayBufferToBase64(buffer) == [bytes |-> buffer, altered |-> "none"]

\* atob accepts a text over the base64 alphabet and throws on any other
ValidBase64(base64) == base64.altered # "invalid"

\* the bytes atob yields: those encoded, unless a character that carries
\* data bits was replaced; the bits of the last character that encode no
\* byte are discarded
base64ToArrayBuffer(base64) ==
    IF base64.altered = "bits"
    THEN [base64.bytes EXCEPT !.intact = FALSE]
    ELSE base64.bytes

\* AES-GCM appends a 128-bit authentication tag to the encrypted bytes
TagBytes == 16

\* crypto.subtle.encrypt / decrypt with AES-GCM; `intact` is false for a
\* ciphertext some byte of which is no longer the byte encrypt produced
AesGcmEncrypt(key, iv, data) ==
    [key |-> key, iv |-> iv, data |-> data, intact |-> TRUE]
AesGcmDecrypt(key, iv, ciphertext) ==
    IF ciphertext.key = key /\ ciphertext.iv = iv /\ ciphertext.intact
    THEN [ok |-> TRUE, data |-> ciphertext.data]
    ELSE [ok |-> FALSE]

\* the number of bytes of a ciphertext, and whether its base64 text ends in
\* a character with bits that encode no byte
ByteLength(ciphertext) == Len(ciphertext.data) + TagBytes
HasSlackBits(ciphertext) == ByteLength(ciphertext) % 3 # 0

\* what replacing one character of a ciphertext's base64 text can do: change
\* the decoded bytes, leave the base64 alphabet, or change only slack bits
Alterations(base64) ==
    {"bits", "invalid"} \cup (IF HasSlackBits(base64.bytes) THEN {"slack"} ELSE {})

Seal(key, iv, str) ==
    [iv |-> arrayBufferToBase64(iv),
     ciphertext |-> arrayBufferToBase64(AesGcmEncrypt(key, iv, TextEncode(str)))]

\* the envelopes a caller can hand to decrypt / verifyPassphrase: every
\* envelope some session can have produced, and those with the iv replaced
Envelopes ==
    {[iv |-> arrayBufferToBase64(i),
      ciphertext |-> arrayBufferToBase64(AesGcmEncrypt(k, j, TextEncode(d)))] :
        i \in IVs, j \in IVs, k \in Keys, d \in Plaintexts}

\* the canary envelopes storage can hold: 'test' sealed under some key
Canaries == {Seal(k, 1, TestText) : k \in Keys}

(* ---------------- EncryptionService ---------------- *)

VARIABLES
    svc,          \* masterKey, sessionTimeout, and the runtime's timer table
    initCalls,    \* initialize calls awaiting deriveKey, by caller
    idleTicks,    \* ticks since the last successful encrypt/decrypt (saturating)
    call,         \* the service call or timer callback that ran last, and its outcome
    dispatched,   \* number of 'session-locked' events the last step dispatched
    config,       \* the stored UserConfig (salt, testEncryptedData)
    auth,         \* the auth store's state
    task,         \* the auth store's async operation in flight
    kept          \* an envelope a caller holds on to, with the text it was made from

vars == <<svc, initCalls, idleTicks, call, dispatched, config, auth, task, kept>>

isUnlocked(s) == s.masterKey # NoKey

clearTimeout(timers, handle) ==
    IF handle = NoTimer THEN timers ELSE [timers EXCEPT ![handle] = NotPending]

\* setTimeout: a handle not in use, with the full window to run
setTimeout(timers) ==
    CHOOSE t \in TimerIds : timers[t] = NotPending /\
        \A u \in TimerIds : timers[u] = NotPending => t <= u

lock_KeepTimer(s) == [s EXCEPT !.masterKey = NoKey]
lock(s) ==
    [masterKey |-> NoKey,
     sessionTimeout |-> NoTimer,
     timers |-> clearTimeout(s.timers, s.sessionTimeout)]

resetSessionTimeout_NoClear(s) ==
    LET t == setTimeout(s.timers)
    IN [s EXCEPT !.sessionTimeout = t,
                 !.timers = [s.timers EXCEPT ![t] = SessionTimeoutTicks]]
resetSessionTimeout(s) ==
    LET cleared == clearTimeout(s.timers, s.sessionTimeout)
        t == setTimeout(cleared)
    IN [s EXCEPT !.sessionTimeout = t,
                 !.timers = [cleared EXCEPT ![t] = SessionTimeoutTicks]]

\* initialize, from the point where deriveKey has resolved
initialize_NoTimer(s, passphrase, saltBytes) ==
    [s EXCEPT !.masterKey = deriveKey(passphrase, saltBytes)]
initialize(s, passphrase, saltBytes) ==
    resetSessionTimeout([s EXCEPT !.masterKey = deriveKey(passphrase, saltBytes)])

encrypt_NoGuard(s, iv, data) ==
    Returned(Seal(IF s.masterKey = NoKey THEN deriveKey(1, 1) ELSE s.masterKey, iv, data))
encrypt(s, iv, data) ==
    IF s.masterKey = NoKey THEN Threw(NotInitialized)
    ELSE Returned(Seal(s.masterKey, iv, data))

\* the base64 texts are decoded before the try block, so what atob throws
\* reaches the caller as it is; whatever crypto.subtle.decrypt throws is
\* replaced by the one message
decrypt_Unchecked(s, encryptedData) ==
    IF s.masterKey = NoKey THEN Threw(NotInitialized)
    ELSE Returned(TextDecode(base64ToArrayBuffer(encryptedData.ciphertext).data))
decrypt(s, encryptedData) ==
    IF s.masterKey = NoKey THEN Threw(NotInitialized)
    ELSE IF ~ValidBase64(encryptedData.iv) \/ ~ValidBase64(encryptedData.ciphertext)
    THEN Threw(InvalidCharacterError)
    ELSE LET iv == base64ToArrayBuffer(encryptedData.iv)
             ciphertext == base64ToArrayBuffer(encryptedData.ciphertext)
             decryptedData == AesGcmDecrypt(s.masterKey, iv, ciphertext)
         IN IF decryptedData.ok THEN Returned(TextDecode(decryptedData.data))
            ELSE Threw(DecryptionFailed)

\* verifyPassphrase decodes inside its try block: every failure is false
verifyPassphrase_AlwaysTrue(passphrase, salt, testEncryptedData) == TRUE
verifyPassphrase_ComparesCanary(passphrase, salt, testEncryptedData) ==
    /\ ValidBase64(testEncryptedData.iv) /\ ValidBase64(testEncryptedData.ciphertext)
    /\ LET tempKey == deriveKey(passphrase, salt)
           iv == base64ToArrayBuffer(testEncryptedData.iv)
           ciphertext == base64ToArrayBuffer(testEncryptedData.ciphertext)
           decryptedData == AesGcmDecrypt(tempKey, iv, ciphertext)
       IN decryptedData.ok /\ TextDecode(decryptedData.data) = TestText
verifyPassphrase(passphrase, salt, testEncryptedData) ==
    /\ ValidBase64(testEncryptedData.iv) /\ ValidBase64(testEncryptedData.ciphertext)
    /\ LET tempKey == deriveKey(passphrase, salt)
           iv == base64ToArrayBuffer(testEncryptedData.iv)
           ciphertext == base64ToArrayBuffer(testEncryptedData.ciphertext)
       IN AesGcmDecrypt(tempKey, iv, ciphertext).ok

\* what verifyPassphrase leaves of the service: tempKey is a local of the
\* call and no field of the service is written
afterVerify_RetainsKey(s, passphrase, salt, testEncryptedData) ==
    IF verifyPassphrase(passphrase, salt, testEncryptedData)
    THEN [s EXCEPT !.masterKey = deriveKey(passphrase, salt)]
    ELSE s
afterVerify(s, passphrase, salt, testEncryptedData) == s

(* ---------------- direct calls on the service ---------------- *)

\* the kept envelope now predates a lock
Relocked(k) == IF k.present THEN [k EXCEPT !.relocked = TRUE] ELSE k

Ran(op, args, out) ==
    [op |-> op, args |-> args, out |-> out, unlockedBefore |-> isUnlocked(svc)]

HasFreeTimer == \E t \in TimerIds : svc.timers[t] = NotPending

\* const saltBytes = salt || this.generateSalt()
SaltBytes_AlwaysGenerates(salt, generated) == generated
SaltBytes(salt, generated) == IF salt = NoSalt THEN generated ELSE salt

\* initialize up to its await: the salt is taken or generated, deriveKey starts
InitializeCall(passphrase, salt) ==
    /\ ~initCalls.direct.pending
    /\ \E generated \in Salts :
         initCalls' = [initCalls EXCEPT !.direct =
                [pending |-> TRUE, passphrase |-> passphrase, salt |-> salt,
                 saltBytes |-> SaltBytes(salt, generated)]]
    /\ dispatched' = 0
    /\ UNCHANGED <<kept, svc, idleTicks, call, config, auth, task>>

\* initialize after its await: the key is stored, the timer reset and the
\* salt returned
InitializeReturn ==
    /\ initCalls.direct.pending
    /\ HasFreeTimer
    /\ LET c == initCalls.direct
       IN /\ svc' = initialize(svc, c.passphrase, c.saltBytes)
          /\ call' = Ran("initialize", <<c.passphrase, c.salt>>, Returned(c.saltBytes))
    /\ initCalls' = [initCalls EXCEPT !.direct = NoCall]
    /\ dispatched' = 0
    /\ UNCHANGED <<kept, idleTicks, config, auth, task>>

\* what encrypt and decrypt leave of the service: neither writes masterKey
\* or sessionTimeout, whether it returns or throws
afterCodec_LocksOnFailure(s, out) == IF out.threw THEN lock(s) ELSE s
afterCodec(s, out) == s

\* encrypt tests masterKey and hands the key to crypto.subtle.encrypt before
\* its only await, so its outcome is fixed by the state at the call
Encrypt(data) ==
    /\ \E iv \in IVs :
         LET out == encrypt(svc, iv, data)
         IN /\ call' = Ran("encrypt", <<data>>, out)
            /\ svc' = afterCodec(svc, out)
            /\ idleTicks' = IF out.threw THEN idleTicks ELSE 0
    /\ dispatched' = 0
    /\ UNCHANGED <<kept, initCalls, config, auth, task>>

Decrypt(encryptedData) ==
    /\ LET out == decrypt(svc, encryptedData)
       IN /\ call' = Ran("decrypt", <<encryptedData>>, out)
          /\ svc' = afterCodec(svc, out)
          /\ idleTicks' = IF out.threw THEN idleTicks ELSE 0
    /\ dispatched' = 0
    /\ UNCHANGED <<kept, initCalls, config, auth, task>>

Lock ==
    /\ svc' = lock(svc)
    /\ call' = Ran("lock", <<>>, Returned("void"))
    /\ dispatched' = 0
    /\ kept' = Relocked(kept)
    /\ UNCHANGED <<initCalls, idleTicks, config, auth, task>>

ResetSessionTimeout ==
    /\ HasFreeTimer
    /\ svc' = resetSessionTimeout(svc)
    /\ call' = Ran("resetSessionTimeout", <<>>, Returned("void"))
    /\ dispatched' = 0
    /\ UNCHANGED <<kept, initCalls, idleTicks, config, auth, task>>

VerifyPassphrase(passphrase, salt, testEncryptedData) ==
    /\ call' = Ran("verifyPassphrase", <<passphrase, salt, testEncryptedData>>,
                   Returned(verifyPassphrase(passphrase, salt, testEncryptedData)))
    /\ svc' = afterVerify(svc, passphrase, salt, testEncryptedData)
    /\ dispatched' = 0
    /\ UNCHANGED <<kept, initCalls, idleTicks, config, auth, task>>

(* ---------------- time and the auto-lock timer ---------------- *)

Max(a, b) == IF a >= b THEN a ELSE b
Min(a, b) == IF a <= b THEN a ELSE b

\* one tick passes: every pending timer comes one tick closer to its deadline
Tick ==
    /\ svc' = [svc EXCEPT !.timers =
            [t \in TimerIds |->
                IF svc.timers[t] = NotPending THEN NotPending
                ELSE Max(0, svc.timers[t] - 1)]]
    /\ idleTicks' = Min(SessionTimeoutTicks, idleTicks + 1)
    /\ dispatched' = 0
    /\ UNCHANGED <<kept, initCalls, call, config, auth, task>>

\* the auth store's lock, which is also its 'session-locked' listener
authLock(s, a) == [svc |-> lock(s), auth |-> [a EXCEPT !.isUnlocked = FALSE]]

\* the callback resetSessionTimeout schedules: lock, then dispatch the event,
\* whose listener runs before dispatchEvent returns
timeoutCallback_NoDispatch(s, a) == [svc |-> lock(s), auth |-> a, dispatched |-> 0]
timeoutCallback(s, a) ==
    LET heard == authLock(lock(s), a)
    IN [svc |-> heard.svc, auth |-> heard.auth, dispatched |-> 1]

TimerFire(t) ==
    /\ svc.timers[t] = 0
    /\ LET after == timeoutCallback([svc EXCEPT !.timers[t] = NotPending], auth)
       IN /\ svc' = after.svc
          /\ auth' = after.auth
          /\ dispatched' = after.dispatched
    /\ call' = Ran("timeout", <<t>>, Returned("void"))
    /\ kept' = Relocked(kept)
    /\ UNCHANGED <<initCalls, idleTicks, config, task>>

AuthLock ==
    /\ LET r == authLock(svc, auth)
       IN svc' = r.svc /\ auth' = r.auth
    /\ call' = Ran("lock", <<>>, Returned("void"))
    /\ dispatched' = 0
    /\ kept' = Relocked(kept)
    /\ UNCHANGED <<initCalls, idleTicks, config, task>>

(* ---------------- specification of the service alone ---------------- *)

Idle == [kind |-> "idle"]

Init ==
    /\ svc = [masterKey |-> NoKey, sessionTimeout |-> NoTimer,
              timers |-> [t \in TimerIds |-> NotPending]]
    /\ initCalls = [direct |-> NoCall, store |-> NoCall]
    /\ idleTicks = SessionTimeoutTicks
    /\ call = [op |-> "new", args |-> <<>>, out |-> Returned("void"),
               unlockedBefore |-> FALSE]
    /\ dispatched = 0
    /\ config = NoConfig
    /\ auth = [isUnlocked |-> FALSE, isFirstTimeSetup |-> FALSE,
               isLoading |-> TRUE, error |-> "null"]
    /\ task = Idle
    /\ kept = NoKept

Next ==
    \/ \E p \in Passphrases, s \in Salts \cup {NoSalt} : InitializeCall(p, s)
    \/ InitializeReturn
    \/ \E d \in Plaintexts : Encrypt(d)
    \/ \E e \in Canaries : Decrypt(e)
    \/ Lock
    \/ ResetSessionTimeout
    \/ \E p \in Passphrases, s \in Salts, e \in Canaries : VerifyPassphrase(p, s, e)
    \/ Tick
    \/ \E t \in TimerIds : TimerFire(t)

Spec == Init /\ [][Next]_vars

\* the operations that write the key or the timer, encrypt as the session's
\* use, and time; decrypt and verifyPassphrase write neither
NextSession ==
    \/ \E p \in Passphrases, s \in Salts \cup {NoSalt} : InitializeCall(p, s)
    \/ InitializeReturn
    \/ \E d \in Plaintexts : Encrypt(d)
    \/ Lock
    \/ ResetSessionTimeout
    \/ Tick
    \/ \E t \in TimerIds : TimerFire(t)

\* time passes and a due timer callback is run by the event loop
FairSpec ==
    /\ Init /\ [][NextSession]_vars
    /\ WF_vars(Tick)
    /\ WF_vars(\E t \in TimerIds : TimerFire(t))

(* ---------------- specification of the verifier alone ---------------- *)

NextVerify ==
    \E p \in Passphrases, s \in Salts, e \in Envelopes : VerifyPassphrase(p, s, e)

VerifySpec == Init /\ [][NextVerify]_vars

(* ---------------- specification of the envelope codec ---------------- *)

\* config.saltLength
SaltLength == 16

\* salts a caller can supply that are not SaltLength bytes long: one of 8
\* bytes; a salt below zero stands for a salt of that many bytes
MalformedSalts == {-8}
SaltByteLength(salt) == IF salt < 0 THEN -salt ELSE SaltLength

\* const encrypted = await service.encrypt(data), and the caller keeps both
EncryptAndKeep(data) ==
    /\ \E iv \in IVs :
         LET out == encrypt(svc, iv, data)
         IN /\ call' = Ran("encrypt", <<data>>, out)
            /\ idleTicks' = IF out.threw THEN idleTicks ELSE 0
            /\ svc' = afterCodec(svc, out)
            /\ kept' = IF out.threw THEN kept
                       ELSE [present |-> TRUE, data |-> data, envelope |-> out.value,
                             key |-> svc.masterKey, relocked |-> FALSE]
    /\ dispatched' = 0
    /\ UNCHANGED <<initCalls, config, auth, task>>

\* service.decrypt(encrypted) on the envelope the caller kept
DecryptKept == kept.present /\ Decrypt(kept.envelope)

\* one character of the kept envelope's ciphertext text is replaced
AlterKept(kind) ==
    /\ kept.present
    /\ kept.envelope.ciphertext.altered = "none"
    /\ kind \in Alterations(kept.envelope.ciphertext)
    /\ kept' = [kept EXCEPT !.envelope.ciphertext.altered = kind]
    /\ dispatched' = 0
    /\ UNCHANGED <<svc, initCalls, idleTicks, call, config, auth, task>>

\* a caller that awaits each call before it makes the next
Settled == ~initCalls.direct.pending

NextCodec ==
    \/ \E p \in Passphrases, s \in Salts : InitializeCall(p, s)
    \/ InitializeReturn
    \/ Settled /\ Lock
    \/ \E d \in Texts : Settled /\ EncryptAndKeep(d)
    \/ Settled /\ DecryptKept
    \/ \E kind \in {"bits", "invalid", "slack"} : Settled /\ AlterKept(kind)

CodecSpec == Init /\ [][NextCodec]_vars

\* the session driven with salts of any length
NextSalt ==
    \/ \E p \in Passphrases, s \in Salts \cup {NoSalt} \cup MalformedSalts :
            InitializeCall(p, s)
    \/ InitializeReturn
    \/ Lock
    \/ \E p \in Passphrases, q \in Passphrases, s \in Salts \cup MalformedSalts :
            VerifyPassphrase(p, s, Seal(deriveKey(q, 1), 1, TestText))
    \/ Tick
    \/ \E t \in TimerIds : TimerFire(t)

SaltSpec == Init /\ [][NextSalt]_vars

(* ---------------- the auth store ---------------- *)

\* the async operation finished: what it returned, and what it ran with
Done(op, result) ==
    [kind |-> "done", op |-> op, passphrase |-> task.passphrase,
     lockedAtStart |-> task.lockedAtStart, result |-> result]

CanStart == task.kind \in {"idle", "done"}

\* catch (error) of setupPassphrase
SetupFailed ==
    /\ auth' = [auth EXCEPT !.error = "Failed to setup passphrase", !.isLoading = FALSE]
    /\ task' = Done("setupPassphrase", Threw("caught"))

\* setupPassphrase up to the await inside encryptionService.initialize(passphrase)
SetupStart(passphrase) ==
    /\ CanStart
    /\ auth' = [auth EXCEPT !.isLoading = TRUE, !.error = "null"]
    /\ \E generated \in Salts :
         initCalls' = [initCalls EXCEPT !.store =
            [pending |-> TRUE, passphrase |-> passphrase, salt |-> NoSalt,
             saltBytes |-> SaltBytes(NoSalt, generated)]]
    /\ task' = [kind |-> "setupPassphrase", pc |-> "initialize",
                passphrase |-> passphrase, lockedAtStart |-> ~isUnlocked(svc)]
    /\ dispatched' = 0
    /\ UNCHANGED <<kept, svc, idleTicks, call, config>>

\* initialize resolves with the salt; encrypt('test') is called next
SetupInitialized ==
    /\ task.kind = "setupPassphrase" /\ task.pc = "initialize"
    /\ HasFreeTimer
    /\ LET c == initCalls.store
       IN /\ svc' = initialize(svc, c.passphrase, c.saltBytes)
          /\ call' = Ran("initialize", <<c.passphrase, c.salt>>, Returned(c.saltBytes))
          /\ task' = [kind |-> "setupPassphrase", pc |-> "encryptTest",
                      passphrase |-> task.passphrase,
                      lockedAtStart |-> task.lockedAtStart, salt |-> c.saltBytes]
    /\ initCalls' = [initCalls EXCEPT !.store = NoCall]
    /\ dispatched' = 0
    /\ UNCHANGED <<kept, idleTicks, config, auth>>

\* testEncryptedData = await encryptionService.encrypt('test')
SetupEncryptTest ==
    /\ task.kind = "setupPassphrase" /\ task.pc = "encryptTest"
    /\ \E iv \in IVs :
         LET out == encrypt(svc, iv, TestText)
         IN /\ call' = Ran("encrypt", <<TestText>>, out)
            /\ idleTicks' = IF out.threw THEN idleTicks ELSE 0
            /\ IF out.threw
               THEN SetupFailed
               ELSE /\ task' = [kind |-> "setupPassphrase", pc |-> "encryptConfig",
                                passphrase |-> task.passphrase,
                                lockedAtStart |-> task.lockedAtStart,
                                salt |-> task.salt, testEncryptedData |-> out.value]
                    /\ auth' = auth
    /\ dispatched' = 0
    /\ UNCHANGED <<kept, svc, initCalls, config>>

\* encryptedAPIKeys and encryptedModelConfigs: two more awaited encrypt calls
\* on JSON text, then indexedDBService.saveConfig(config) is called
SetupEncryptConfig ==
    /\ task.kind = "setupPassphrase" /\ task.pc = "encryptConfig"
    /\ \E iv \in IVs :
         LET out == encrypt(svc, iv, EmptyObjectText)
         IN /\ call' = Ran("encrypt", <<EmptyObjectText>>, out)
            /\ idleTicks' = IF out.threw THEN idleTicks ELSE 0
            /\ IF out.threw
               THEN SetupFailed
               ELSE task' = [task EXCEPT !.pc = "saveConfig"] /\ auth' = auth
    /\ dispatched' = 0
    /\ UNCHANGED <<kept, svc, initCalls, config>>

\* saveConfig resolves or rejects; on success the Blue Book fetch starts
SetupSaveConfig ==
    /\ task.kind = "setupPassphrase" /\ task.pc = "saveConfig"
    /\ \/ /\ config' = [present |-> TRUE,
                         salt |-> arrayBufferToBase64(task.salt),
                         testEncryptedData |-> task.testEncryptedData]
          /\ task' = [task EXCEPT !.pc = "cacheBlueBook"]
          /\ auth' = auth
       \/ /\ SetupFailed
          /\ config' = config
    /\ dispatched' = 0
    /\ UNCHANGED <<kept, svc, initCalls, idleTicks, call>>

\* fetch and cacheBlueBookListings resolve or reject
SetupCacheBlueBook ==
    /\ task.kind = "setupPassphrase" /\ task.pc = "cacheBlueBook"
    /\ \/ /\ auth' = [auth EXCEPT !.isFirstTimeSetup = FALSE,
                                   !.isUnlocked = TRUE, !.isLoading = FALSE]
          /\ task' = Done("setupPassphrase", Returned("void"))
       \/ SetupFailed
    /\ dispatched' = 0
    /\ UNCHANGED <<kept, svc, initCalls, idleTicks, call, config>>

\* unlock up to await indexedDBService.getConfig()
UnlockStart(passphrase) ==
    /\ CanStart
    /\ auth' = [auth EXCEPT !.isLoading = TRUE, !.error = "null"]
    /\ task' = [kind |-> "unlock", pc |-> "getConfig",
                passphrase |-> passphrase, lockedAtStart |-> ~isUnlocked(svc)]
    /\ dispatched' = 0
    /\ UNCHANGED <<kept, svc, initCalls, idleTicks, call, config>>

\* catch (error) of unlock
UnlockFailed ==
    /\ auth' = [auth EXCEPT !.error = "Failed to unlock", !.isLoading = FALSE]
    /\ task' = Done("unlock", Returned(FALSE))

\* getConfig resolves (with or without a config) or rejects; with a config
\* the salt is decoded and verifyPassphrase is called
UnlockGetConfig ==
    /\ task.kind = "unlock" /\ task.pc = "getConfig"
    /\ \/ /\ ~config.present
          /\ auth' = [auth EXCEPT !.error = "No configuration found",
                                   !.isLoading = FALSE]
          /\ task' = Done("unlock", Returned(FALSE))
       \/ /\ config.present
          /\ auth' = auth
          /\ task' = [kind |-> "unlock", pc |-> "verifyPassphrase",
                      passphrase |-> task.passphrase,
                      lockedAtStart |-> task.lockedAtStart,
                      salt |-> base64ToArrayBuffer(config.salt),
                      testEncryptedData |-> config.testEncryptedData]
       \/ UnlockFailed
    /\ dispatched' = 0
    /\ UNCHANGED <<kept, svc, initCalls, idleTicks, call, config>>

\* verifyPassphrase resolves: false returns false; true calls
\* encryptionService.initialize(passphrase, salt), which awaits deriveKey
UnlockVerified ==
    /\ task.kind = "unlock" /\ task.pc = "verifyPassphrase"
    /\ LET isValid == verifyPassphrase(task.passphrase, task.salt, task.testEncryptedData)
       IN /\ call' = Ran("verifyPassphrase",
                         <<task.passphrase, task.salt, task.testEncryptedData>>,
                         Returned(isValid))
          /\ IF ~isValid
             THEN /\ auth' = [auth EXCEPT !.isLoading = FALSE]
                  /\ task' = Done("unlock", Returned(FALSE))
                  /\ initCalls' = initCalls
             ELSE /\ auth' = auth
                  /\ task' = [task EXCEPT !.pc = "initialize"]
                  /\ initCalls' = [initCalls EXCEPT !.store =
                        [pending |-> TRUE, passphrase |-> task.passphrase,
                         salt |-> task.salt,
                         saltBytes |-> SaltBytes(task.salt, NoSalt)]]
    /\ svc' = afterVerify(svc, task.passphrase, task.salt, task.testEncryptedData)
    /\ dispatched' = 0
    /\ UNCHANGED <<kept, idleTicks, config>>

\* initialize resolves; getAllBlueBookListings is called
UnlockInitialized ==
    /\ task.kind = "unlock" /\ task.pc = "initialize"
    /\ HasFreeTimer
    /\ LET c == initCalls.store
       IN /\ svc' = initialize(svc, c.passphrase, c.saltBytes)
          /\ call' = Ran("initialize", <<c.passphrase, c.salt>>, Returned(c.saltBytes))
    /\ task' = [task EXCEPT !.pc = "getAllBlueBookListings"]
    /\ initCalls' = [initCalls EXCEPT !.store = NoCall]
    /\ dispatched' = 0
    /\ UNCHANGED <<kept, idleTicks, config, auth>>

UnlockSucceeded ==
    /\ auth' = [auth EXCEPT !.isUnlocked = TRUE, !.isLoading = FALSE]
    /\ task' = Done("unlock", Returned(TRUE))

\* getAllBlueBookListings rejects (outer catch), resolves with cached
\* listings, or resolves empty, and then the fetch starts
UnlockListings ==
    /\ task.kind = "unlock" /\ task.pc = "getAllBlueBookListings"
    /\ \/ UnlockFailed
       \/ UnlockSucceeded
       \/ task' = [task EXCEPT !.pc = "cacheBlueBook"] /\ auth' = auth
    /\ dispatched' = 0
    /\ UNCHANGED <<kept, svc, initCalls, idleTicks, call, config>>

\* fetch and cacheBlueBookListings resolve, or reject into the inner catch
UnlockCacheBlueBook ==
    /\ task.kind = "unlock" /\ task.pc = "cacheBlueBook"
    /\ UnlockSucceeded
    /\ dispatched' = 0
    /\ UNCHANGED <<kept, svc, initCalls, idleTicks, call, config>>

\* the application reads back an envelope it stored
DecryptStored ==
    /\ config.present
    /\ Decrypt(config.testEncryptedData)

NextAuth ==
    \/ \E p \in Passphrases : SetupStart(p)
    \/ SetupInitialized
    \/ SetupEncryptTest
    \/ SetupEncryptConfig
    \/ SetupSaveConfig
    \/ SetupCacheBlueBook
    \/ \E p \in Passphrases : UnlockStart(p)
    \/ UnlockGetConfig
    \/ UnlockVerified
    \/ UnlockInitialized
    \/ UnlockListings
    \/ UnlockCacheBlueBook
    \/ AuthLock
    \/ DecryptStored
    \/ Tick
    \/ \E t \in TimerIds : TimerFire(t)

AuthSpec == Init /\ [][NextAuth]_vars

(* ---------------- the passphrase strength scorer ---------------- *)

MaxPassphraseLength == 16

TooShortRemark == "Use at least 8 characters"
LowVarietyRemark == "Mix uppercase, lowercase, numbers, and symbols"
RepetitionRemark == "Avoid repeated characters"
CommonPatternRemark == "Avoid common patterns"
PositiveRemark == "Strong passphrase!"

\* /[a-z]/, /[A-Z]/, /\d/ and /[^a-zA-Z\d]/ on one code unit
Lowercase(c) == c >= 97 /\ c <= 122
Uppercase(c) == c >= 65 /\ c <= 90
Digit(c) == c >= 48 /\ c <= 57
Special(c) == ~Lowercase(c) /\ ~Uppercase(c) /\ ~Digit(c)

varietyCount(passphrase) ==
    LET chars == {passphrase[i] : i \in 1..Len(passphrase)}
    IN (IF \E c \in chars : Lowercase(c) THEN 1 ELSE 0)
       + (IF \E c \in chars : Uppercase(c) THEN 1 ELSE 0)
       + (IF \E c \in chars : Digit(c) THEN 1 ELSE 0)
       + (IF \E c \in chars : Special(c) THEN 1 ELSE 0)

\* the code units the regular expression dot does not match: LF, CR,
\* U+2028 and U+2029
LineTerminators == {10, 13, 8232, 8233}

\* /^(.)\1+$/
RepeatedCharacters_ExactlyTwo(passphrase) ==
    /\ Len(passphrase) = 2
    /\ passphrase[1] \notin LineTerminators
    /\ passphrase[2] = passphrase[1]
RepeatedCharacters(passphrase) ==
    /\ Len(passphrase) >= 2
    /\ passphrase[1] \notin LineTerminators
    /\ \A i \in 1..Len(passphrase) : passphrase[i] = passphrase[1]

\* 012, 123, 234, abc, qwerty, password
CommonPatterns ==
    {<<48, 49, 50>>, <<49, 50, 51>>, <<50, 51, 52>>, <<97, 98, 99>>,
     <<113, 119, 101, 114, 116, 121>>, <<112, 97, 115, 115, 119, 111, 114, 100>>}

\* the i flag: code units are compared by their upper case
Canonicalize(c) == IF Lowercase(c) THEN c - 32 ELSE c

\* /^(012|123|234|abc|qwerty|password)/i
CommonPattern_CaseSensitive(passphrase) ==
    \E pattern \in CommonPatterns :
        /\ Len(passphrase) >= Len(pattern)
        /\ \A i \in 1..Len(pattern) : passphrase[i] = pattern[i]
CommonPattern(passphrase) ==
    \E pattern \in CommonPatterns :
        /\ Len(passphrase) >= Len(pattern)
        /\ \A i \in 1..Len(pattern) :
              Canonicalize(passphrase[i]) = Canonicalize(pattern[i])

\* the length check: nothing below 12, score++ from 12, again from 16
lengthScore_Above12(length) ==
    IF length > 12 THEN (IF length >= 16 THEN 2 ELSE 1) ELSE 0
lengthScore(length) ==
    IF length < 8 THEN 0
    ELSE IF length >= 12 THEN (IF length >= 16 THEN 2 ELSE 1)
    ELSE 0

\* if (feedback.length === 0) feedback.push('Strong passphrase!')
finalFeedback_MayBeEmpty(feedback) == feedback
finalFeedback(feedback) == IF Len(feedback) = 0 THEN <<PositiveRemark>> ELSE feedback

calculatePassphraseStrength(passphrase) ==
    LET feedback1 == IF Len(passphrase) < 8 THEN <<TooShortRemark>> ELSE <<>>
        score1 == lengthScore(Len(passphrase))
        count == varietyCount(passphrase)
        feedback2 == IF count < 3 THEN Append(feedback1, LowVarietyRemark) ELSE feedback1
        score2 == IF count < 3 THEN score1
                  ELSE score1 + (IF count >= 3 THEN 1 ELSE 0) + (IF count = 4 THEN 1 ELSE 0)
        repeated == RepeatedCharacters(passphrase)
        feedback3 == IF repeated THEN Append(feedback2, RepetitionRemark) ELSE feedback2
        score3 == IF repeated THEN 0 ELSE score2
        common == CommonPattern(passphrase)
        feedback4 == IF common THEN Append(feedback3, CommonPatternRemark) ELSE feedback3
        score4 == IF common THEN Max(0, score3 - 2) ELSE score3
    IN [score |-> Min(4, Max(0, score4)), feedback |-> finalFeedback(feedback4)]

\* the first `length` code units of seed seed seed ...
Stretch(seed, length) == [i \in 1..length |-> seed[((i - 1) % Len(seed)) + 1]]

\* short strings the passphrases of the model are cut from: single
\* characters of each class and a line feed, mixtures of two, three and four
\* classes, the common patterns in lower, upper and mixed case followed by
\* other characters, and strings that only resemble a common pattern
Seeds ==
    {<<97>>, <<65>>, <<55>>, <<33>>, <<10>>,
     <<97, 66>>, <<97, 55>>, <<97, 66, 55>>, <<97, 33, 55>>, <<97, 66, 55, 33>>,
     <<97, 98, 67>>, <<120, 97, 98, 99>>, <<49, 97, 50, 51>>,
     <<112, 97, 115, 115, 119, 111, 114>>}
    \cup CommonPatterns
    \cup {pattern \o <<90, 57, 33, 120>> : pattern \in CommonPatterns}
    \cup {[i \in 1..Len(pattern) |-> Canonicalize(pattern[i])] \o <<122, 33>> :
            pattern \in CommonPatterns}
    \cup {<<80>> \o Tail(<<112, 97, 115, 115, 119, 111, 114, 100>>) \o <<49, 33>>}

ScorerInputs == {Stretch(seed, length) : seed \in Seeds, length \in 0..MaxPassphraseLength}

CalculatePassphraseStrength(passphrase) ==
    /\ call' = Ran("calculatePassphraseStrength", <<passphrase>>,
                   Returned(calculatePassphraseStrength(passphrase)))
    /\ dispatched' = 0
    /\ UNCHANGED <<kept, svc, initCalls, idleTicks, config, auth, task>>

NextScorer == \E passphrase \in ScorerInputs : CalculatePassphraseStrength(passphrase)

ScorerSpec == Init /\ [][NextScorer]_vars

(* ---------------- BaseLLMProvider.retryWithBackoff ---------------- *)

\* largest maxRetries a caller passes in the model
MaxRetriesBound == 4

\* initialDelay: number = 1000
DefaultInitialDelay == 1000

MaxRetriesValues == 0..MaxRetriesBound
InitialDelays == {1, DefaultInitialDelay}

\* error.status of what fn rejects with; NoStatus: an Error without a status
\* property (a network failure, or the Error handleHTTPError builds)
NoStatus == 0
Unauthorized == 401
BadRequest == 400
Statuses == {BadRequest, Unauthorized, 429, 500, NoStatus}

\* let lastError: Error | null = null
NoError == [ok |-> FALSE, status |-> NoStatus, attempt |-> 0, message |-> "null"]

\* new Error('Max retries exceeded')
MaxRetriesExceeded ==
    [ok |-> FALSE, status |-> NoStatus, attempt |-> 0,
     message |-> "Max retries exceeded"]

\* what the promise returned by the attempt-th invocation of fn settles with
Resolved(attempt) ==
    [ok |-> TRUE, status |-> NoStatus, attempt |-> attempt, message |-> "result"]

Rejected(status, attempt) ==
    [ok |-> FALSE, status |-> status, attempt |-> attempt, message |-> "error"]

Outcomes(attempt) ==
    {Resolved(attempt)} \cup {Rejected(status, attempt) : status \in Statuses}

Unsettled == [threw |-> FALSE, pending |-> TRUE]

\* if (error.status === 401 || error.status === 400) throw error
isAuthOrInvalidRequest(error) == error.status \in {Unauthorized, BadRequest}

\* if (i === maxRetries - 1) break
isLastAttempt(i, maxRetries) == i = maxRetries - 1

\* const delay = initialDelay * Math.pow(2, i)
delay_Linear(initialDelay, i) == initialDelay * (i + 1)
delay(initialDelay, i) == initialDelay * 2^i

\* throw lastError || new Error('Max retries exceeded')
thrownAfterLoop(lastError) ==
    IF lastError = NoError THEN MaxRetriesExceeded ELSE lastError

\* the promise of retryWithBackoff settles
Settle(t, result) == [t EXCEPT !.kind = "retried", !.pc = "settled", !.result = result]

\* for (...; i < maxRetries; ...)
LoopCondition(t) ==
    IF t.i < t.maxRetries
    THEN [t EXCEPT !.pc = "fn"]
    ELSE Settle(t, Threw(thrownAfterLoop(t.lastError)))

RetryIdle == task.kind \in {"idle", "retried"}

\* retryWithBackoff is called: it runs up to the first await fn()
RetryWithBackoff(maxRetries, initialDelay) ==
    /\ RetryIdle
    /\ task' = LoopCondition([kind |-> "retry", pc |-> "fn", i |-> 0,
                              maxRetries |-> maxRetries,
                              initialDelay |-> initialDelay,
                              lastError |-> NoError,
                              invocations |-> <<>>, waits |-> <<>>,
                              result |-> Unsettled])
    /\ UNCHANGED <<svc, initCalls, idleTicks, call, dispatched, config, auth, kept>>

\* the promise of fn settles: return its value, or run the catch block up to
\* its throw, its break or its await of the backoff timer
FnSettles(outcome) ==
    /\ task.kind = "retry" /\ task.pc = "fn"
    /\ outcome \in Outcomes(Len(task.invocations) + 1)
    /\ LET t == [task EXCEPT !.invocations = Append(@, outcome)] IN
       task' =
         IF outcome.ok THEN Settle(t, Returned(outcome))
         ELSE LET c == [t EXCEPT !.lastError = outcome] IN
              IF isAuthOrInvalidRequest(outcome) THEN Settle(c, Threw(outcome))
              ELSE IF isLastAttempt(c.i, c.maxRetries)
                   THEN Settle(c, Threw(thrownAfterLoop(c.lastError)))
                   ELSE [c EXCEPT !.pc = "sleep",
                                  !.waits = Append(@, delay(c.initialDelay, c.i))]
    /\ UNCHANGED <<svc, initCalls, idleTicks, call, dispatched, config, auth, kept>>

\* the backoff timer fires: i++ and the loop condition
BackoffElapsed ==
    /\ task.kind = "retry" /\ task.pc = "sleep"
    /\ task' = LoopCondition([task EXCEPT !.i = @ + 1])
    /\ UNCHANGED <<svc, initCalls, idleTicks, call, dispatched, config, auth, kept>>

NextRetry ==
    \/ \E maxRetries \in MaxRetriesValues, initialDelay \in InitialDelays :
          RetryWithBackoff(maxRetries, initialDelay)
    \/ \E attempt \in 1..MaxRetriesBound :
          \E outcome \in Outcomes(attempt) : FnSettles(outcome)
    \/ BackoffElapsed

RetrySpec == Init /\ [][NextRetry]_vars

(* ---------------- properties of the session manager ---------------- *)

Pending == {t \in TimerIds : svc.timers[t] # NotPending}

\* ticks left on the timer the service holds
Remaining ==
    IF svc.sessionTimeout = NoTimer THEN NotPending ELSE svc.timers[svc.sessionTimeout]

Refusing ==
    /\ ~isUnlocked(svc)
    /\ \A iv \in IVs, d \in Plaintexts : encrypt(svc, iv, d) = Threw(NotInitialized)

\* C1: an encrypt or decrypt call made while the manager is Locked throws
\* 'Encryption service not initialized', in every Locked state.
C1_LockedCallsFail ==
    (call.op \in {"encrypt", "decrypt"} /\ ~call.unlockedBefore)
        => call.out = Threw(NotInitialized)

\* an encrypt refused in a session that was unlocked and used before
C1_Witness ==
    /\ call.op = "encrypt" /\ ~call.unlockedBefore
    /\ call.out = Threw(NotInitialized)
    /\ idleTicks < SessionTimeoutTicks

\* C2: directly after lock() in the Unlocked state no key is held and no
\* auto-lock timer is pending.
C2_LockClears ==
    (call.op = "lock" /\ call.unlockedBefore)
        => /\ ~isUnlocked(svc)
           /\ svc.masterKey = NoKey
           /\ svc.sessionTimeout = NoTimer
           /\ Pending = {}

C2_Witness == call.op = "lock" /\ call.unlockedBefore /\ ~isUnlocked(svc)

C4_IdleSessionLocks ==
    /\ isUnlocked(svc) ~> (Refusing \/ Remaining < SessionTimeoutTicks)
    /\ \A r \in 0..(SessionTimeoutTicks - 1) :
         (isUnlocked(svc) /\ Remaining <= r) ~> (Refusing \/ Remaining > r)

C4_Witness ==
    call.op = "timeout" /\ call.unlockedBefore /\ Refusing /\ Pending = {}

\* C5 as claimed: the auto-lock fires no earlier than one full window after
\* the most recent successful encrypt or decrypt.
C5_FiresAfterFullIdleWindow ==
    call.op = "timeout" => idleTicks >= SessionTimeoutTicks

\* C6: at most one timer is pending, it is the one the service holds, and
\* once the timeout has fired nothing is left pending to fire again.
C6_OneTimer ==
    /\ Cardinality(Pending) <= 1
    /\ Pending \subseteq {svc.sessionTimeout}
    /\ call.op = "timeout" => Pending = {}

\* initialize completed on a session that was already unlocked (so a timer
\* was scheduled before), and one timer with the full window is pending
C6_Witness ==
    /\ call.op = "initialize" /\ call.unlockedBefore
    /\ Cardinality(Pending) = 1
    /\ Remaining = SessionTimeoutTicks

(* ---------------- properties of unlock and the verifier ---------------- *)

\* what an envelope was sealed with, which no caller can read off it
SealedKey(e) == base64ToArrayBuffer(e.ciphertext).key
SealedText(e) == TextDecode(base64ToArrayBuffer(e.ciphertext).data)
Intact(e) == base64ToArrayBuffer(e.ciphertext).iv = base64ToArrayBuffer(e.iv)

\* the passphrase is the one the stored canary was created under
Matches(passphrase) ==
    /\ config.present
    /\ Intact(config.testEncryptedData)
    /\ SealedKey(config.testEncryptedData) =
           deriveKey(passphrase, base64ToArrayBuffer(config.salt))

UnlockDone == task.kind = "done" /\ task.op = "unlock"

\* C7: unlock with a passphrase that does not match the stored salt and
\* canary never reaches initialize; started on a Locked manager it returns
\* false and leaves no key resident and no timer scheduled.
C7_WrongPassphraseStaysLocked ==
    /\ (UnlockDone /\ config.present /\ ~Matches(task.passphrase) /\ task.lockedAtStart)
          => /\ task.result = Returned(FALSE)
             /\ ~isUnlocked(svc)
             /\ svc.sessionTimeout = NoTimer
             /\ Pending = {}
    /\ (task.kind = "unlock" /\ task.pc \notin {"getConfig", "verifyPassphrase"})
          => Matches(task.passphrase)

C7_Witness ==
    /\ UnlockDone /\ config.present /\ ~Matches(task.passphrase) /\ task.lockedAtStart
    /\ call.op = "verifyPassphrase" /\ call.out = Returned(FALSE)
    /\ task.result = Returned(FALSE)

VerifyCalled == call.op = "verifyPassphrase"

\* C9 as claimed: verify returns true only if the canary decrypts under the
\* key of (passphrase, salt) and the recovered plaintext is the canary value.
C9_TrueOnlyForCanaryText ==
    (VerifyCalled /\ call.out = Returned(TRUE))
        => /\ Intact(call.args[3])
           /\ SealedKey(call.args[3]) = deriveKey(call.args[1], call.args[2])
           /\ SealedText(call.args[3]) = TestText

\* C9 amended: verify returns true exactly when the envelope decrypts under
\* the key of (passphrase, salt), whatever plaintext it recovers.
C9_TrueIffDecrypts ==
    VerifyCalled
        => (call.out = Returned(TRUE)
              <=> /\ Intact(call.args[3])
                  /\ SealedKey(call.args[3]) = deriveKey(call.args[1], call.args[2]))

\* verify accepted an envelope that holds another plaintext than the canary
C9_Witness ==
    /\ VerifyCalled /\ call.out = Returned(TRUE)
    /\ SealedText(call.args[3]) # TestText

\* C10: for a canary created under passphrase p0 and the salt given, verify
\* completes normally, with true for p0 and false for every other passphrase.
C10_WrongPassphraseIsFalse ==
    VerifyCalled
        => \A p0 \in Passphrases :
             (/\ Intact(call.args[3])
              /\ SealedText(call.args[3]) = TestText
              /\ SealedKey(call.args[3]) = deriveKey(p0, call.args[2]))
                => call.out = Returned(call.args[1] = p0)

C10_Witness ==
    /\ VerifyCalled /\ call.out = Returned(FALSE)
    /\ Intact(call.args[3]) /\ SealedText(call.args[3]) = TestText
    /\ \E p0 \in Passphrases \ {call.args[1]} :
         SealedKey(call.args[3]) = deriveKey(p0, call.args[2])

(* ---------------- C11: verifyPassphrase and the session ---------------- *)

\* C11: a verifyPassphrase call, whatever it returns, leaves the session as
\* it was: the resident key (or its absence) is the same, so the temporary
\* key is not retained and a resident key is not replaced, and the timer
\* handle and every timer's remaining time are the same.
C11_VerifyLeavesSession ==
    [][(call'.op = "verifyPassphrase" /\ call' # call)
        => /\ svc'.masterKey = svc.masterKey
           /\ isUnlocked(svc') = isUnlocked(svc)
           /\ svc'.sessionTimeout = svc.sessionTimeout
           /\ svc'.timers = svc.timers
           /\ initCalls' = initCalls]_vars

\* verifyPassphrase returned true for a passphrase and salt other than the
\* session's, while a session was open with its timer running
C11_Witness ==
    /\ call.op = "verifyPassphrase" /\ call.out = Returned(TRUE)
    /\ call.unlockedBefore /\ isUnlocked(svc)
    /\ svc.masterKey # deriveKey(call.args[1], call.args[2])
    /\ svc.sessionTimeout # NoTimer /\ svc.timers[svc.sessionTimeout] # NotPending

(* ---------------- C12: round trip ---------------- *)

KeptIntact == kept.present /\ kept.envelope.ciphertext.altered = "none"

\* decrypt was called, in an open session, on the envelope the caller kept
DecryptedKept ==
    /\ kept.present
    /\ call.op = "decrypt" /\ call.unlockedBefore
    /\ call.args[1] = kept.envelope

\* C12: for every string passed to encrypt, the empty string and non-ASCII
\* strings included, decrypt of the returned envelope in the same session
\* returns exactly that string.
C12_RoundTrip ==
    (DecryptedKept /\ KeptIntact /\ ~kept.relocked /\ svc.masterKey = kept.key)
        => call.out = Returned(kept.data)

(* ---------------- C14, C15: keys and the envelopes they open ---------------- *)

\* C14: an envelope made before a lock, decrypted in a session whose key is
\* derived from the same passphrase and the same salt as the key it was
\* made under, decrypts to the text it was made from.
C14_SameDerivationDecrypts ==
    \A p \in Passphrases, s \in Salts :
        (/\ DecryptedKept /\ KeptIntact /\ kept.relocked
         /\ kept.key = deriveKey(p, s) /\ svc.masterKey = deriveKey(p, s))
            => call.out = Returned(kept.data)

\* C15: an envelope made under the key of (p1, s1) and decrypted in a
\* session initialized with (p2, s2), where the passphrases or the salts
\* differ, is refused with DecryptionFailed; no text is returned.
C15_MismatchedKeyFails ==
    \A p1 \in Passphrases, p2 \in Passphrases,
       s1 \in Salts, s2 \in Salts :
        (/\ DecryptedKept /\ KeptIntact
         /\ kept.key = deriveKey(p1, s1) /\ svc.masterKey = deriveKey(p2, s2)
         /\ (p1 # p2 \/ s1 # s2))
            => call.out = Threw(DecryptionFailed)

\* an envelope was refused in a session with the same passphrase and
\* another salt
C15_Witness ==
    /\ DecryptedKept /\ KeptIntact /\ kept.relocked
    /\ \E p \in Passphrases, s1 \in Salts, s2 \in Salts :
         /\ s1 # s2
         /\ kept.key = deriveKey(p, s1) /\ svc.masterKey = deriveKey(p, s2)
    /\ call.out = Threw(DecryptionFailed)

(* ---------------- C16, C17: altered ciphertext ---------------- *)

\* C16: when one character of an envelope's ciphertext has been replaced,
\* decrypt under the key the envelope was made with fails with
\* DecryptionFailed and returns no text.
C16_AlteredCiphertextFails ==
    (DecryptedKept /\ ~KeptIntact /\ svc.masterKey = kept.key)
        => call.out = Threw(DecryptionFailed)

\* C17: the error decrypt throws for an altered ciphertext under the right
\* key is the error it throws for the unaltered envelope under any other
\* key.
C17_SameErrorAsWrongKey ==
    (DecryptedKept /\ ~KeptIntact /\ svc.masterKey = kept.key /\ call.out.threw)
        => \A k \in Keys \ {kept.key} :
              call.out = decrypt([svc EXCEPT !.masterKey = k],
                                 [kept.envelope EXCEPT !.ciphertext.altered = "none"])

(* ---------------- C18, C19: initialize and its salt ---------------- *)

ConfigurationError == "ConfigurationError"

\* C19: initialize or verifyPassphrase called with a salt that is not
\* SaltLength bytes long throws ConfigurationError and leaves the key and
\* the timer as they were.
C19_MalformedSaltRejected ==
    [][(call' # call /\ call'.op \in {"initialize", "verifyPassphrase"}
            /\ call'.args[2] # NoSalt /\ SaltByteLength(call'.args[2]) # SaltLength)
        => (call'.out = Threw(ConfigurationError) /\ svc' = svc)]_vars

(* ---------------- C20: encrypt, decrypt and the session ---------------- *)

\* C20: an encrypt or decrypt call, whether it returns or throws, leaves
\* the resident key as it was: an Unlocked manager stays Unlocked with the
\* same key and a Locked manager stays Locked.
C20_CodecLeavesSession ==
    [][(call' # call /\ call'.op \in {"encrypt", "decrypt"})
        => /\ svc'.masterKey = svc.masterKey
           /\ isUnlocked(svc') = isUnlocked(svc)]_vars

\* decrypt failed with DecryptionFailed in an open session, which is still
\* open
C20_Witness ==
    /\ call.op = "decrypt" /\ call.unlockedBefore
    /\ call.out = Threw(DecryptionFailed)
    /\ isUnlocked(svc)

(* ---------------- C21 to C24: the strength scorer ---------------- *)

Scored == call.op = "calculatePassphraseStrength"
ScoredPassphrase == call.args[1]
Assessment == call.out.value

\* one code unit, whichever it is, repeated two or more times
OneCharacterRepeated(passphrase) ==
    /\ Len(passphrase) >= 2
    /\ \A i \in 1..Len(passphrase) : passphrase[i] = passphrase[1]

\* begins with one of the common patterns, in any mixture of cases
BeginsWithCommonPattern(passphrase) ==
    \E pattern \in CommonPatterns :
        /\ Len(passphrase) >= Len(pattern)
        /\ \A i \in 1..Len(pattern) :
              passphrase[i] \in {pattern[i], Canonicalize(pattern[i])}

LengthCredit(passphrase) ==
    IF Len(passphrase) >= 16 THEN 2 ELSE IF Len(passphrase) >= 12 THEN 1 ELSE 0

VarietyCredit(passphrase) ==
    IF varietyCount(passphrase) = 4 THEN 2
    ELSE IF varietyCount(passphrase) = 3 THEN 1 ELSE 0

Has(feedback, remark) == \E i \in 1..Len(feedback) : feedback[i] = remark

\* C21: a passphrase that is neither one character repeated nor begins with
\* a common pattern scores its length credit plus its variety credit, and
\* every score lies in 0..4.
C21_ScoreIsLengthPlusVariety ==
    Scored =>
        /\ Assessment.score \in 0..4
        /\ (~OneCharacterRepeated(ScoredPassphrase)
              /\ ~BeginsWithCommonPattern(ScoredPassphrase))
             => Assessment.score
                  = LengthCredit(ScoredPassphrase) + VarietyCredit(ScoredPassphrase)

\* a passphrase of twelve code units in three classes scored 2
C21_Witness ==
    /\ Scored /\ Len(ScoredPassphrase) = 12
    /\ ~OneCharacterRepeated(ScoredPassphrase)
    /\ ~BeginsWithCommonPattern(ScoredPassphrase)
    /\ varietyCount(ScoredPassphrase) = 3
    /\ Assessment.score = 2

\* C22 as stated: every passphrase that is one character repeated two or
\* more times scores 0 and is told of the repetition.
C22_AnyRepeatedCharacterScoresZero ==
    (Scored /\ OneCharacterRepeated(ScoredPassphrase))
        => /\ Assessment.score = 0
           /\ Has(Assessment.feedback, RepetitionRemark)

\* C22: every passphrase that is one character other than a line
\* terminator repeated two or more times scores 0, whatever its length, and
\* its feedback contains the repetition remark.
C22_RepeatedCharacterScoresZero ==
    (Scored /\ OneCharacterRepeated(ScoredPassphrase)
            /\ ScoredPassphrase[1] \notin LineTerminators)
        => /\ Assessment.score = 0
           /\ Has(Assessment.feedback, RepetitionRemark)

\* sixteen times the same letter scored 0
C22_Witness ==
    /\ Scored /\ Len(ScoredPassphrase) = 16
    /\ OneCharacterRepeated(ScoredPassphrase) /\ Lowercase(ScoredPassphrase[1])
    /\ Assessment.score = 0
    /\ Has(Assessment.feedback, RepetitionRemark)

\* C23: a passphrase that begins, in any mixture of cases, with a common
\* pattern scores its credits less 2, not below 0 and so not above 2, and
\* its feedback contains the common-pattern remark.
C23_CommonPatternCostsTwo ==
    (Scored /\ BeginsWithCommonPattern(ScoredPassphrase))
        => /\ Assessment.score
                = Max(0, LengthCredit(ScoredPassphrase)
                         + VarietyCredit(ScoredPassphrase) - 2)
           /\ Assessment.score <= 2
           /\ Has(Assessment.feedback, CommonPatternRemark)

\* a passphrase of sixteen code units in four classes that begins with a
\* pattern written in upper case scored 2
C23_Witness ==
    /\ Scored /\ BeginsWithCommonPattern(ScoredPassphrase)
    /\ ~CommonPattern_CaseSensitive(ScoredPassphrase)
    /\ Len(ScoredPassphrase) = 16 /\ varietyCount(ScoredPassphrase) = 4
    /\ Assessment.score = 2

\* the flagged remarks in rule order, each with the condition of its rule
Flagged(passphrase) ==
    (IF Len(passphrase) < 8 THEN <<TooShortRemark>> ELSE <<>>)
    \o (IF varietyCount(passphrase) < 3 THEN <<LowVarietyRemark>> ELSE <<>>)
    \o (IF OneCharacterRepeated(passphrase) /\ passphrase[1] \notin LineTerminators
        THEN <<RepetitionRemark>> ELSE <<>>)
    \o (IF BeginsWithCommonPattern(passphrase) THEN <<CommonPatternRemark>> ELSE <<>>)

\* C24: the feedback is never empty: it is the positive remark alone
\* exactly when no rule flagged the passphrase, and otherwise it is the
\* flagged remarks, in rule order, and nothing else.
C24_FeedbackNeverEmpty ==
    Scored =>
        /\ Len(Assessment.feedback) > 0
        /\ (Assessment.feedback = <<PositiveRemark>>
                <=> Flagged(ScoredPassphrase) = <<>>)
        /\ (Flagged(ScoredPassphrase) # <<>>
                => Assessment.feedback = Flagged(ScoredPassphrase))

\* a passphrase no rule flags got the positive remark alone
C24_Witness ==
    /\ Scored /\ Flagged(ScoredPassphrase) = <<>>
    /\ Assessment.feedback = <<PositiveRemark>>

(* ---------------- C25 to C29: locks, timers and the auth store ---------------- *)

\* C25: when lock() ran, or the auto-lock fired, while unlock's initialize
\* call was awaiting deriveKey, the manager is still Locked once that
\* initialize has completed.
C25_LockOutlastsInitialize ==
    [][(/\ task.kind = "unlock" /\ task.pc = "initialize"
        /\ call.op \in {"lock", "timeout"}
        /\ task'.pc # "initialize")
        => ~isUnlocked(svc')]_vars

\* C26: while the manager is Locked no timer is pending.
C26_LockedHasNoTimer ==
    ~isUnlocked(svc) => Pending = {}

\* C27: while a key is resident exactly one timer is pending, and it is the
\* one the service holds.
C27_UnlockedHasOneTimer ==
    isUnlocked(svc) => (Cardinality(Pending) = 1 /\ Pending = {svc.sessionTimeout})

\* resetSessionTimeout ran on an open session, and one timer is pending
C27_Witness ==
    /\ isUnlocked(svc) /\ call.op = "resetSessionTimeout" /\ call.unlockedBefore
    /\ Cardinality(Pending) = 1 /\ Pending = {svc.sessionTimeout}

\* C28: whenever the auth store says the session is unlocked, the
\* encryption service holds a key.
C28_StoreUnlockedImpliesKey ==
    auth.isUnlocked => isUnlocked(svc)

\* C29: a setupPassphrase that ended with its error set, or an unlock that
\* returned false, started while the service was Locked, leaves the
\* service Locked.
C29_FailureLeavesLocked ==
    [][(/\ task.kind # "done" /\ task'.kind = "done"
        /\ task'.lockedAtStart
        /\ (task'.result.threw
              \/ (task'.op = "unlock" /\ task'.result = Returned(FALSE))))
        => (~isUnlocked(svc') /\ Pending' = {})]_vars

(* ---------------- retryWithBackoff: C30 ---------------- *)

\* C30: fn is invoked at most maxRetries times; an invocation follows only a
\* failure whose status is neither 401 nor 400; the k-th wait lasts
\* initialDelay * 2^(k-1) and every wait is followed by another attempt; once
\* settled, the result is the value of the one successful (and last)
\* invocation, or the error of the last invocation, which had status 401 or
\* 400 or was the maxRetries-th, with no wait after it.
C30_RetryWithBackoff ==
    task.kind \in {"retry", "retried"} =>
        LET n == Len(task.invocations) IN
        /\ n <= task.maxRetries
        /\ \A k \in 1..(n - 1) :
              /\ ~task.invocations[k].ok
              /\ task.invocations[k].status \notin {401, 400}
        /\ \A k \in 1..Len(task.waits) :
              task.waits[k] = task.initialDelay * 2^(k - 1)
        /\ task.pc \in {"fn", "sleep"} => Len(task.waits) = n
        /\ task.pc = "sleep" => n < task.maxRetries
        /\ (task.kind = "retried" /\ n > 0) =>
              /\ Len(task.waits) = n - 1
              /\ IF task.invocations[n].ok
                 THEN task.result = Returned(task.invocations[n])
                 ELSE /\ task.result = Threw(task.invocations[n])
                      /\ \/ task.invocations[n].status \in {401, 400}
                         \/ n = task.maxRetries

\* four attempts with the default delay all failed with a retryable error:
\* three waits of 1000, 2000 and 4000, and the fourth error is thrown
C30_Witness ==
    /\ task.kind = "retried"
    /\ task.maxRetries = 4 /\ task.initialDelay = DefaultInitialDelay
    /\ Len(task.invocations) = 4
    /\ task.waits = <<1000, 2000, 4000>>
    /\ task.result = Threw(Rejected(500, 4))
====
